---------------------------- MODULE Spec2Model ----------------------------
(*************************************************************************)
(* Model of tax_credit/eval_framework.py: the metric engine              *)
(* (get_observed_observation_ids, compute_prf,                           *)
(* get_actual_and_expected_vectors), the evaluation orchestrator         *)
(* (evaluate_results, compute_mock_results, mount_observations), the     *)
(* merge utility (merge_expected_and_observed_tables) and the ranking    *)
(* layer (get_sample_to_top_params, parameter_comparisons,               *)
(* method_by_dataset).                                                   *)
(*                                                                       *)
(* Strings that the code takes apart (observation ids, taxonomy strings) *)
(* are sequences of one-character strings.  Floating point values are    *)
(* exact rationals [n |-> numerator, d |-> denominator] in lowest terms. *)
(*************************************************************************)
EXTENDS Integers, Sequences, FiniteSets, TLC

VARIABLES
    actual_table,    \* metric engine: the table of observed results
    expected_table,  \* metric engine: the table of expected results
    disk_results,    \* the result tables found under the results directory
    disk_expected,   \* (dataset, reference) -> expected table file
    results_file,    \* the file at results_fp
    merged_files,    \* the merged tables written under the expected directory
    mock_results,    \* ranking layer: the results table (a data frame)
    on_empty_filter, \* what table.filter does when it keeps no observation
    call,            \* the last call made: its name and arguments
    ret              \* what the last call returned or raised

vars == <<actual_table, expected_table, disk_results, disk_expected,
          results_file, merged_files, mock_results, on_empty_filter, call, ret>>

metric_vars == <<actual_table, expected_table>>
disk_vars == <<disk_results, disk_expected, results_file, merged_files>>

-----------------------------------------------------------------------------
(* Bounds of the model *)

MaxTaxa == 3      \* distinct taxa an observation id can name
MaxWs == 2        \* whitespace characters inside an observation id
MaxObs == 2       \* observations (rows) of a table of the metric engine
MaxResults == 2   \* result tables under the results directory
MaxRows == 3      \* rows of the results table given to the ranking layer

-----------------------------------------------------------------------------
(* Values shared by all parts *)

None == "None"

Range(s) == {s[i] : i \in DOMAIN s}

\* The element of a one-element set.  Only({e(x) : x \in {v}}) is e(v) with
\* v evaluated once, however often e reads x.
Only(S) == CHOOSE x \in S : TRUE

\* The function f with every value computed.
Table(f) == f @@ <<>>

\* The permutations of a finite set, as sequences: the orders that
\* list(set) can produce.
Orders(S) ==
    {s \in [1..Cardinality(S) -> S] : \A i, j \in DOMAIN s : i # j => s[i] # s[j]}

RECURSIVE GCD(_, _)
GCD(a, b) == IF b = 0 THEN a ELSE GCD(b, a % b)

\* The quotient n / d of two naturals, d > 0.
Rat(n, d) == LET g == GCD(n, d) IN [n |-> n \div g, d |-> d \div g]

RatMul(x, y) == Rat(x.n * y.n, x.d * y.d)
RatAdd(x, y) == Rat(x.n * y.d + y.n * x.d, x.d * y.d)
\* x / y; a zero divisor raises ZeroDivisionError, written as denominator 0.
RatDiv(x, y) == IF y.n = 0 THEN [n |-> 0, d |-> 0] ELSE Rat(x.n * y.d, x.d * y.n)

-----------------------------------------------------------------------------
(* Observation ids and tables of the metric engine *)

WhiteSpace == {" ", "\t"}
Digits == <<"1", "2", "3", "4", "5">>

\* The id of taxon t written with w whitespace characters after the "k":
\* ObsId(1, 0) is "k__1" and ObsId(1, 2) is "k \t__1".
ObsId(t, w) ==
    <<"k">> \o [i \in 1..w |-> IF i % 2 = 1 THEN " " ELSE "\t"] \o <<"_", "_", Digits[t]>>

\* The ids a table can hold: every taxon written without whitespace, and
\* the first taxon written with whitespace as well.
IdPool == {ObsId(t, 0) : t \in 1..MaxTaxa} \cup {ObsId(1, MaxWs)}

SampleIds == {"S1", "S2"}
CellValues == {0, 1}

\* The sample id lists of the tables with one sample, and with up to two.
OneSample == {<<"S1">>}
UpToTwoSamples == UNION {Orders(T) : T \in (SUBSET SampleIds) \ {{}}}

\* A table: its observation ids, its sample ids in the table's order, and
\* the value of each cell.  Tables(SS) are the tables whose sample id list
\* is in SS.
Tables(SS) ==
    UNION {UNION {
        {[ids |-> I, samples |-> S, val |-> v] :
            v \in [I \X Range(S) -> CellValues]} : S \in SS} :
        I \in {J \in SUBSET IdPool : Cardinality(J) <= MaxObs} }

EmptyTable == [ids |-> {}, samples |-> <<"S1">>, val |-> <<>>]

\* "".join(observation_id.split())
StripWs(id) == SelectSeq(id, LAMBDA c : c \notin WhiteSpace)

\* The sample a call reads: the first sample of the table by default.
SampleOf(table, sample_id) ==
    IF sample_id = None THEN table.samples[1] ELSE sample_id

\* table.get_value_by_ids raises UnknownIDError for a sample id the table
\* does not have; it is called once per observation of the table.
ObservedIdsRaises(table, sample_id) ==
    table.ids # {} /\ SampleOf(table, sample_id) \notin Range(table.samples)

\* Mutant of get_observed_observation_ids: only the leading and trailing
\* whitespace is removed (str.strip in place of "".join(str.split())).
get_observed_observation_ids_trim(table, sample_id, ws_strip) ==
    LET sid == SampleOf(table, sample_id)
        Trim(o) == IF Len(o) > 0 /\ o[Len(o)] \in WhiteSpace
                   THEN SubSeq(o, 1, Len(o) - 1) ELSE o
    IN  {IF ws_strip THEN Trim(o) ELSE o :
            o \in {x \in table.ids : table.val[<<x, sid>>] > 0}}

get_observed_observation_ids(table, sample_id, ws_strip) ==
    LET sid == SampleOf(table, sample_id)
    IN  {IF ws_strip THEN StripWs(o) ELSE o :
            o \in {x \in table.ids : table.val[<<x, sid>>] > 0}}

ComputePrfRaises(actual, expected, actual_sample_id, expected_sample_id) ==
    \/ ObservedIdsRaises(actual, actual_sample_id)
    \/ ObservedIdsRaises(expected, expected_sample_id)

\* Mutant of PrfOfCounts: the case tp = 0 is not set apart, so 0 is divided
\* by p + r = 0 (a denominator of 0 stands for ZeroDivisionError).
PrfOfCounts_unguarded(tp, fp, fn) ==
    IF tp > 0
    THEN [p |-> Rat(tp, tp + fp), r |-> Rat(tp, tp + fn),
          f |-> RatDiv(RatMul(Rat(2, 1), RatMul(Rat(tp, tp + fp), Rat(tp, tp + fn))),
                       RatAdd(Rat(tp, tp + fp), Rat(tp, tp + fn)))]
    ELSE [p |-> Rat(0, 1), r |-> Rat(0, 1), f |-> [n |-> 0, d |-> 0]]

\* p, r and f from the counts of true positives, false positives and
\* false negatives.
PrfOfCounts(tp, fp, fn) ==
    IF tp > 0
    THEN LET p == Rat(tp, tp + fp)
             r == Rat(tp, tp + fn)
         IN  [p |-> p, r |-> r,
              f |-> RatDiv(RatMul(Rat(2, 1), RatMul(p, r)), RatAdd(p, r))]
    ELSE [p |-> Rat(0, 1), r |-> Rat(0, 1), f |-> Rat(0, 1)]

\* Mutant of compute_prf: the ids are compared without whitespace stripping.
compute_prf_nostrip(actual, expected, actual_sample_id, expected_sample_id) ==
    LET A == get_observed_observation_ids(actual, actual_sample_id, FALSE)
        E == get_observed_observation_ids(expected, expected_sample_id, FALSE)
    IN  PrfOfCounts(Cardinality(A \cap E), Cardinality(A \ E), Cardinality(E \ A))

compute_prf(actual, expected, actual_sample_id, expected_sample_id) ==
    LET A == get_observed_observation_ids(actual, actual_sample_id, TRUE)
        E == get_observed_observation_ids(expected, expected_sample_id, TRUE)
    IN  PrfOfCounts(Cardinality(A \cap E), Cardinality(A \ E), Cardinality(E \ A))

\* table.index(sample_id, axis="sample") raises for an unknown sample id,
\* whether or not the table has observations.
VectorsRaises(actual, expected, actual_sample_id, expected_sample_id) ==
    \/ ComputePrfRaises(actual, expected, actual_sample_id, expected_sample_id)
    \/ SampleOf(actual, actual_sample_id) \notin Range(actual.samples)
    \/ SampleOf(expected, expected_sample_id) \notin Range(expected.samples)

\* The union of the observed ids of both tables (not stripped).
all_obs_ids(actual, expected, actual_sample_id, expected_sample_id) ==
    get_observed_observation_ids(actual, actual_sample_id, FALSE)
        \cup get_observed_observation_ids(expected, expected_sample_id, FALSE)

\* The value of obs_id in the table's sample: 0.0 when the table does not
\* have the id (UnknownIDError).
VectorValue(table, obs_id, sample_id) ==
    IF obs_id \notin table.ids THEN 0
    ELSE table.val[<<obs_id, SampleOf(table, sample_id)>>]

\* Mutant of get_actual_and_expected_vectors: the expected vector is built
\* over the expected table's observed ids only.
get_actual_and_expected_vectors_own(actual, expected, actual_sample_id, expected_sample_id, order) ==
    LET eo == SelectSeq(order, LAMBDA o :
                  o \in get_observed_observation_ids(expected, expected_sample_id, FALSE))
    IN  [ids |-> order,
         actual_vector |->
             [i \in DOMAIN order |-> VectorValue(actual, order[i], actual_sample_id)],
         expected_vector |->
             [i \in DOMAIN eo |-> VectorValue(expected, eo[i], expected_sample_id)]]

\* order is the order list(actual_obs_ids | expected_obs_ids) gives the ids.
get_actual_and_expected_vectors(actual, expected, actual_sample_id, expected_sample_id, order) ==
    [ids |-> order,
     actual_vector |->
         [i \in DOMAIN order |-> VectorValue(actual, order[i], actual_sample_id)],
     expected_vector |->
         [i \in DOMAIN order |-> VectorValue(expected, order[i], expected_sample_id)]]

-----------------------------------------------------------------------------
(* The metric engine: each behaviour draws the tables and makes one call *)

NoCall == [op |-> "none"]
NoRet == [raised |-> None]
NoFile == [exists |-> FALSE]

\* The metric engine reads no file.
NoDisk ==
    /\ disk_results = {}
    /\ disk_expected = <<>>
    /\ results_file = NoFile
    /\ merged_files = {}

\* get_observed_observation_ids on one table of up to two samples
InitObserved ==
    /\ actual_table \in Tables(UpToTwoSamples)
    /\ expected_table = EmptyTable
    /\ NoDisk
    /\ mock_results = <<>>
    /\ call = NoCall
    /\ ret = NoRet
    /\ on_empty_filter = "returns"

CallObservedIds ==
    /\ call = NoCall
    /\ \E sid \in SampleIds \cup {None}, ws \in BOOLEAN :
        /\ call' = [op |-> "get_observed_observation_ids",
                    sample_id |-> sid, ws_strip |-> ws]
        /\ ret' = IF ObservedIdsRaises(actual_table, sid)
                  THEN [raised |-> "UnknownIDError"]
                  ELSE [raised |-> None,
                        value |-> get_observed_observation_ids(actual_table, sid, ws)]
        /\ UNCHANGED <<metric_vars, on_empty_filter, disk_vars, mock_results>>

NextObserved == CallObservedIds

SpecObserved == InitObserved /\ [][NextObserved]_vars

\* compute_prf and get_actual_and_expected_vectors on two tables
InitMetric ==
    /\ actual_table \in Tables(OneSample)
    /\ expected_table \in Tables(OneSample)
    /\ NoDisk
    /\ mock_results = <<>>
    /\ call = NoCall
    /\ ret = NoRet
    /\ on_empty_filter = "returns"

CallComputePrf ==
    /\ call = NoCall
    /\ \E asid \in SampleIds \cup {None}, esid \in SampleIds \cup {None} :
        /\ call' = [op |-> "compute_prf", actual_sample_id |-> asid,
                    expected_sample_id |-> esid]
        /\ ret' = IF ComputePrfRaises(actual_table, expected_table, asid, esid)
                  THEN [raised |-> "UnknownIDError"]
                  ELSE LET v == compute_prf(actual_table, expected_table, asid, esid)
                       IN  IF v.f.d = 0 THEN [raised |-> "ZeroDivisionError"]
                           ELSE [raised |-> None, value |-> v]
        /\ UNCHANGED <<metric_vars, on_empty_filter, disk_vars, mock_results>>

CallVectors ==
    /\ call = NoCall
    /\ \E asid \in SampleIds \cup {None}, esid \in SampleIds \cup {None} :
        /\ call' = [op |-> "get_actual_and_expected_vectors",
                    actual_sample_id |-> asid, expected_sample_id |-> esid]
        /\ IF VectorsRaises(actual_table, expected_table, asid, esid)
           THEN ret' = [raised |-> "UnknownIDError"]
           ELSE \E order \in Orders(all_obs_ids(actual_table, expected_table,
                                                asid, esid)) :
                   ret' = [raised |-> None,
                           value |-> get_actual_and_expected_vectors(
                               actual_table, expected_table, asid, esid, order)]
        /\ UNCHANGED <<metric_vars, on_empty_filter, disk_vars, mock_results>>

NextMetric == CallComputePrf \/ CallVectors

SpecMetric == InitMetric /\ [][NextMetric]_vars

-----------------------------------------------------------------------------
(* Strings as the loader and the orchestrator take them apart *)

Min(a, b) == IF a < b THEN a ELSE b

\* sep.join(parts)
RECURSIVE Join(_, _)
Join(parts, sep) ==
    IF parts = <<>> THEN <<>>
    ELSE IF Len(parts) = 1 THEN parts[1]
    ELSE parts[1] \o <<sep>> \o Join(Tail(parts), sep)

\* s.split(sep)
RECURSIVE Split(_, _)
Split(s, sep) ==
    IF \A i \in DOMAIN s : s[i] # sep THEN <<s>>
    ELSE LET k == CHOOSE i \in DOMAIN s :
                      s[i] = sep /\ \A j \in 1..(i - 1) : s[j] # sep
         IN  <<SubSeq(s, 1, k - 1)>> \o Split(SubSeq(s, k + 1, Len(s)), sep)

\* s.strip()
RECURSIVE Strip(_)
Strip(s) ==
    IF s = <<>> THEN s
    ELSE IF s[1] \in WhiteSpace THEN Strip(Tail(s))
    ELSE IF s[Len(s)] \in WhiteSpace THEN Strip(SubSeq(s, 1, Len(s) - 1))
    ELSE s

\* s.startswith(prefix)
StartsWith(s, prefix) ==
    Len(prefix) <= Len(s) /\ SubSeq(s, 1, Len(prefix)) = prefix

\* The sum of f over the finite set S.
RECURSIVE SumOver(_, _)
SumOver(S, f) ==
    IF S = {} THEN 0
    ELSE LET x == CHOOSE y \in S : TRUE IN f[x] + SumOver(S \ {x}, f)

-----------------------------------------------------------------------------
(* The table loader: filter_table, get_taxonomy_collapser,                 *)
(* mount_observations.  A table file holds observations, each with a       *)
(* taxonomy annotation md that is either a ';'-delimited string            *)
(* (form "str", v the characters) or a list of ranks (form "seq").         *)

NoTaxa == [given |-> FALSE]
Taxa(list) == [given |-> TRUE, list |-> list]

\* The ranks the collapser reads from an annotation.
Levels(md) ==
    IF md.form = "str"
    THEN LET parts == Split(md.v, ";") IN [i \in DOMAIN parts |-> Strip(parts[i])]
    ELSE [i \in DOMAIN md.v |-> Strip(md.v[i])]

\* Mutant of get_taxonomy_collapser: the level counts ranks from one
\* (levels[:level]).
get_taxonomy_collapser_from_one(level, md) ==
    LET levels == Levels(md)
    IN  Join(SubSeq(levels, 1, Min(level, Len(levels))), ";")

\* f(id_, md) of get_taxonomy_collapser(level): ';'.join(levels[:level+1])
get_taxonomy_collapser(level, md) ==
    LET levels == Levels(md)
    IN  Join(SubSeq(levels, 1, Min(level + 1, Len(levels))), ";")

\* ';'.join(metadata[md_key]): the ranks of a list, the characters of a string
JoinedTaxonomy(md) ==
    IF md.form = "str" THEN Join([i \in DOMAIN md.v |-> <<md.v[i]>>], ";")
    ELSE Join(md.v, ";")

\* The observations of a file that filter_table keeps.
filter_table(file, min_count, taxonomy_level, taxa_to_keep) ==
    LET ttk == Join(taxa_to_keep.list, ";")
        enough_levels(o) == Len(file.md[o].v) >= taxonomy_level + 1
        allowed_taxa(o) ==
            \/ ~taxa_to_keep.given
            \/ StartsWith(o, ttk)
            \/ StartsWith(JoinedTaxonomy(file.md[o]), ttk)
        sufficient_count(o) ==
            SumOver(Range(file.samples), [s \in Range(file.samples) |-> file.val[<<o, s>>]])
                >= min_count
    IN  {o \in file.obs : sufficient_count(o) /\ allowed_taxa(o) /\ enough_levels(o)}

\* table.collapse(collapse_taxonomy, axis='observation', min_group_size=1):
\* one observation per collapsed taxonomy string, holding the combined
\* counts of its group.
Collapse(file, kept, level) ==
    Only({[ids |-> Range(key), samples |-> file.samples,
           val |-> [c \in Range(key) \X Range(file.samples) |->
                       SumOver({o \in kept : key[o] = c[1]},
                               [o \in kept |-> file.val[<<o, c[2]>>]])]] :
          key \in {[o \in kept |-> get_taxonomy_collapser(level, file.md[o])]}})

\* What table.filter does when no observation passes: it returns an empty
\* table, or it raises TableException ("if all data is filtered out"), for
\* which mount_observations has a handler.  Which of the two depends on
\* the table library and its error state, not on this code.
EmptyFilterOutcomes == {"returns", "raises"}

\* The observations of table after the filtering step: those filter_table
\* keeps; all of them when filter_table raised TableException, which is
\* passed over and leaves table as it was loaded.
FilterStep(file, min_count, taxonomy_level, taxa_to_keep) ==
    Only({IF kept = {} /\ on_empty_filter = "raises" THEN file.obs ELSE kept :
          kept \in {filter_table(file, min_count, taxonomy_level, taxa_to_keep)}})

\* The loaded table, or the error raised: ValueError when table.is_empty()
\* after the filtering step.
mount_observations(file, min_count, taxonomy_level, taxa_to_keep, filter_obs) ==
    LET filtering == filter_obs /\ min_count > 0 /\ taxa_to_keep.given
    IN  Only({IF filtering /\ table_obs = {}
              THEN [raised |-> "ValueError"]
              ELSE [raised |-> None, table |-> Collapse(file, table_obs, taxonomy_level)] :
              table_obs \in {IF filtering
                             THEN FilterStep(file, min_count, taxonomy_level, taxa_to_keep)
                             ELSE file.obs}})

-----------------------------------------------------------------------------
(* Files on disk.  Sample ids, method ids and parameter ids are sequences  *)
(* of characters; dataset and reference ids are only ever compared.        *)

S1 == <<"S", "1">>
S2 == <<"S", "2">>
uclust == <<"u", "c", "l", "u", "s", "t">>
rdp == <<"r", "d", "p">>
q2 == <<"q", "2">>
Params_uclust == <<"0", ".", "8", ":", "0", ".", "9", "7", ":", "3">>
Params_rdp == <<"0", ".", "5">>
Params_q2 == <<"0", ".", "7">>

StrTax(chars) == [form |-> "str", v |-> chars]
SeqTax(ranks) == [form |-> "seq", v |-> ranks]

\* A table file from its rows [id, md, counts], counts in the order of samples.
MakeFile(rows, samples) ==
    LET ids == {r.id : r \in rows}
        row(o) == CHOOSE r \in rows : r.id = o
        col(x) == CHOOSE i \in DOMAIN samples : samples[i] = x
    IN  [obs |-> ids, md |-> [o \in ids |-> row(o).md], samples |-> samples,
         val |-> [c \in ids \X Range(samples) |-> row(c[1]).counts[col(c[2])]]]

\* Observed: taxa 'A;B' and 'A;C' with counts 3 and 1 in sample S1.
ObservedAB_AC ==
    MakeFile({[id |-> <<"o", "1">>, md |-> StrTax(<<"A", ";", "B">>), counts |-> <<3>>],
              [id |-> <<"o", "2">>, md |-> StrTax(<<"A", ";", "C">>), counts |-> <<1>>]},
             <<S1>>)

\* Observed: two samples, annotations given as lists of ranks.
ObservedTwoSamples ==
    MakeFile({[id |-> <<"o", "1">>, md |-> SeqTax(<<<<"A">>, <<" ", "B">>>>),
               counts |-> <<2, 0>>],
              [id |-> <<"o", "3">>, md |-> SeqTax(<<<<"D">>, <<"E">>>>),
               counts |-> <<0, 1>>]},
             <<S1, S2>>)

\* Expected: the single taxon 'A;B'.
ExpectedAB ==
    MakeFile({[id |-> <<"e", "1">>, md |-> StrTax(<<"A", ";", "B">>), counts |-> <<1, 1>>]},
             <<S1, S2>>)

\* Expected: 'A;B' in S1 and 'D;E' in S2.
ExpectedAB_DE ==
    MakeFile({[id |-> <<"e", "1">>, md |-> StrTax(<<"A", ";", " ", "B">>), counts |-> <<1, 0>>],
              [id |-> <<"e", "2">>, md |-> StrTax(<<"D", ";", "E">>), counts |-> <<0, 1>>]},
             <<S1, S2>>)

\* The table files by name.
Files ==
    [observed_ab_ac |-> ObservedAB_AC, observed_two |-> ObservedTwoSamples,
     expected_ab |-> ExpectedAB, expected_ab_de |-> ExpectedAB_DE]

\* results_dir/<dataset>/<reference>/<method>/<parameters>/table*biom:
\* file is the name of the table file found there.
Result(d, r, m, ps, file) ==
    [dataset |-> d, reference |-> r, method |-> m, params |-> ps, file |-> file]

ResultPool ==
    {Result("mock-1", "gg", uclust, Params_uclust, "observed_ab_ac"),
     Result("mock-2", "gg", rdp, Params_rdp, "observed_two"),
     Result("mock-1", "silva", uclust, Params_uclust, "observed_two"),
     Result("mock-1", "gg", q2, Params_q2, "observed_ab_ac")}

\* expected_results_dir/<dataset>/<reference>/expected/table.L6-taxa.biom
ExpectedPool ==
    (<<"mock-1", "gg">> :> "expected_ab") @@ (<<"mock-2", "gg">> :> "expected_ab_de")
        @@ (<<"mock-1", "silva">> :> "expected_ab_de")

\* The expected tables on disk: all of them, or all but silva's.
ExpectedDisks ==
    {ExpectedPool,
     [k \in DOMAIN ExpectedPool \ {<<"mock-1", "silva">>} |-> ExpectedPool[k]]}

-----------------------------------------------------------------------------
(* The evaluation orchestrator: seek_results, compute_mock_results,        *)
(* evaluate_results                                                       *)

\* param_ids of compute_mock_results
param_ids ==
    (rdp :> <<"confidence">>)
    @@ (<<"b", "l", "a", "s", "t">> :> <<"e-value">>)
    @@ (<<"s", "o", "r", "t", "m", "e", "r", "n", "a">> :>
           <<"min consensus fraction", "similarity", "best N alignments",
             "coverage", "e value">>)
    @@ (<<"s", "o", "r", "t", "m", "e", "r", "n", "a", "-", "w", "1", "6">> :>
           <<"min consensus fraction", "similarity", "best N alignments",
             "coverage", "e value">>)
    @@ (uclust :> <<"min consensus fraction", "similarity", "max accepts">>)
    @@ (<<"v", "s", "e", "a", "r", "c", "h">> :>
           <<"min consensus fraction", "similarity", "max accepts">>)

DigitChars == {"0", "1", "2", "3", "4", "5", "6", "7", "8", "9"}

\* The list v_ built from one token v: float(e) for each character e of the
\* token that parses, the character itself otherwise.
DecodeToken(v) ==
    [i \in DOMAIN v |-> IF v[i] \in DigitChars THEN <<"float", v[i]>> ELSE <<"str", v[i]>>]

\* param_data[(method_id, params)]: zip(param_ids[method_id], params.split(':'))
ParamData(schema, method_id, params) ==
    LET names == schema[method_id]
        tokens == Split(params, ":")
        n == Min(Len(names), Len(tokens))
    IN  [k \in {names[i] : i \in 1..n} |->
            DecodeToken(tokens[CHOOSE i \in 1..n : names[i] = k])]

\* The value recorded when compute_prf raises ZeroDivisionError
Sentinel == [n |-> -1, d |-> 1]

\* The record of one sample of one result at one level.
EvaluationRecord(res, level, sample_id, actual, expected) ==
    Only({[Dataset |-> res.dataset, Level |-> level, SampleID |-> sample_id,
           Reference |-> res.reference, Method |-> res.method,
           Parameters |-> res.params,
           Precision |-> IF v.f.d = 0 THEN Sentinel ELSE v.p,
           Recall |-> IF v.f.d = 0 THEN Sentinel ELSE v.r,
           F_measure |-> IF v.f.d = 0 THEN Sentinel ELSE v.f] :
          v \in {compute_prf(actual, expected, sample_id, sample_id)}})

\* The records of one result at one taxonomy level, or the error raised.
LevelRecords(res, expected_file, level, min_count, taxa_to_keep) ==
    Only({IF e.raised # None THEN [raised |-> e.raised, rows |-> <<>>]
          ELSE IF a.raised # None THEN [raised |-> a.raised, rows |-> <<>>]
          ELSE IF \E i \in DOMAIN a.table.samples :
                      VectorsRaises(a.table, e.table, a.table.samples[i],
                                    a.table.samples[i])
          THEN [raised |-> "UnknownIDError", rows |-> <<>>]
          ELSE [raised |-> None,
                rows |-> [i \in DOMAIN a.table.samples |->
                             EvaluationRecord(res, level, a.table.samples[i],
                                              a.table, e.table)] \o <<>>] :
          e \in {mount_observations(Files[expected_file], 0, level,
                                    taxa_to_keep, FALSE)},
          a \in {mount_observations(Files[res.file], min_count, level,
                                    taxa_to_keep, TRUE)}})

\* The taxonomy levels of the range in turn, until one raises.
RECURSIVE LevelsRecords(_, _, _, _, _)
LevelsRecords(res, expected_file, levels, min_count, taxa_to_keep) ==
    IF levels = <<>> THEN [raised |-> None, rows |-> <<>>]
    ELSE Only({IF first.raised # None THEN first
               ELSE Only({[raised |-> rest.raised, rows |-> first.rows \o rest.rows] :
                          rest \in {LevelsRecords(res, expected_file, Tail(levels),
                                                  min_count, taxa_to_keep)}}) :
               first \in {LevelRecords(res, expected_file, Head(levels), min_count,
                                       taxa_to_keep)}})

\* One pass of the loop over result_tables: the expected table is looked
\* up, the records of every level are appended, the parameters are decoded.
ResultRecords(res, expected_lookup, schema, levels, min_count, taxa_to_keep) ==
    IF <<res.dataset, res.reference>> \notin DOMAIN expected_lookup
    THEN [raised |-> "KeyError", rows |-> <<>>]
    ELSE Only({IF got.raised # None THEN got
               ELSE IF res.method \notin DOMAIN schema
               THEN [raised |-> "KeyError", rows |-> <<>>]
               ELSE got :
               got \in {LevelsRecords(res, expected_lookup[<<res.dataset, res.reference>>],
                                      levels, min_count, taxa_to_keep)}})

\* The loop over result_tables, until a pass raises.
RECURSIVE AllRecords(_, _, _, _, _, _)
AllRecords(results, expected_lookup, schema, levels, min_count, taxa_to_keep) ==
    IF results = <<>> THEN [raised |-> None, rows |-> <<>>]
    ELSE Only({IF first.raised # None THEN first
               ELSE Only({[raised |-> rest.raised, rows |-> first.rows \o rest.rows] :
                          rest \in {AllRecords(Tail(results), expected_lookup, schema,
                                               levels, min_count, taxa_to_keep)}}) :
               first \in {ResultRecords(Head(results), expected_lookup, schema,
                                        levels, min_count, taxa_to_keep)}})

\* Mutant of MergeParams: the join keeps only the records of the (method,
\* parameters) of the first record.
MergeParams_first(rows, schema) ==
    [i \in DOMAIN SelectSeq(rows, LAMBDA row : row.Method = rows[1].Method /\ row.Parameters = rows[1].Parameters) |->
        [row |-> rows[i], params |-> ParamData(schema, rows[i].Method, rows[i].Parameters)]] \o <<>>

\* result.merge(param_df.T, left_on=('Method', 'Parameters'),
\* right_index=True): every record gets the columns of its (method,
\* parameters); param_data has one entry for each pair met in the loop.
MergeParams(rows, schema) ==
    [i \in DOMAIN rows |->
        [row |-> rows[i],
         params |-> ParamData(schema, rows[i].Method, rows[i].Parameters)]] \o <<>>

\* The results table, or the error raised before anything is written.  The
\* new_param_ids argument is replaced by {} on entry.
compute_mock_results(results, expected_lookup, levels, min_count, taxa_to_keep, new_param_ids) ==
    LET schema == param_ids
    IN  Only({IF got.raised # None THEN [raised |-> got.raised]
              ELSE [raised |-> None, table |-> MergeParams(got.rows, schema)] :
              got \in {AllRecords(results, expected_lookup, schema, levels,
                                  min_count, taxa_to_keep)}})

\* pd.DataFrame.from_csv(results_fp, sep='\t'): the records as written; a
\* column of decoded parameters comes back as the text of its list.
ReadCsv(file) ==
    [i \in DOMAIN file |->
        [row |-> file[i].row,
         params |-> [k \in DOMAIN file[i].params |-> <<"text", file[i].params[k]>>]]]

\* results_dirs: the directory that holds the results, alone or followed
\* by a directory that does not exist
ExistingDirs == {"precomputed"}
ResultsDirsArgs == {<<"precomputed">>, <<"precomputed", "missing">>}

\* taxonomy_level_range
LevelRanges == {<<1>>, <<0, 1>>}

\* (min_count, taxa_to_keep): the defaults
DefaultFilter == [min_count |-> 0, taxa_to_keep |-> NoTaxa]

\* new_param_ids: the default
NoSchema == <<>>

\* Mutant of SeekRaises: no directory is asserted to exist.
SeekRaises_never(results_dirs) == FALSE

\* seek_results: the assertion fails for a directory that does not exist
SeekRaises(results_dirs) ==
    \E i \in DOMAIN results_dirs : results_dirs[i] \notin ExistingDirs

\* Mutant of Recompute: the results are computed on every call.
Recompute_always(file, force) == TRUE

\* if not exists(results_fp) or force
Recompute(file, force) == ~file.exists \/ force

\* The table an earlier run wrote at results_fp, when the results directory
\* held the single result mock-1/gg/uclust
PriorResults ==
    compute_mock_results(<<Result("mock-1", "gg", uclust, Params_uclust, "observed_ab_ac")>>,
                         ExpectedPool, <<1>>, 0, NoTaxa, NoSchema).table

\* results_fp before the first call: no file, or the file of an earlier run
ResultsFiles == {NoFile, [exists |-> TRUE, content |-> PriorResults]}

\* No table is loaded by the orchestrator's own state.
InitEvaluate ==
    /\ actual_table = EmptyTable
    /\ expected_table = EmptyTable
    /\ disk_results \in {R \in SUBSET ResultPool :
                            R # {} /\ Cardinality(R) <= MaxResults}
    /\ disk_expected \in ExpectedDisks
    /\ results_file \in ResultsFiles
    /\ merged_files = {}
    /\ mock_results = <<>>
    /\ call = NoCall
    /\ ret = NoRet
    /\ on_empty_filter \in EmptyFilterOutcomes

\* evaluate_results with its arguments drawn from the given sets: order is
\* the order in which glob lists the tables.
Evaluate(DirsArgs, RangeArgs, FilterArgs, SchemaArgs) ==
    \E results_dirs \in DirsArgs, levels \in RangeArgs,
       filter \in FilterArgs, new_param_ids \in SchemaArgs, force \in BOOLEAN,
       order \in Orders(disk_results) :
        /\ call' = [op |-> "evaluate_results", results_dirs |-> results_dirs,
                    taxonomy_level_range |-> levels,
                    min_count |-> filter.min_count,
                    taxa_to_keep |-> filter.taxa_to_keep,
                    new_param_ids |-> new_param_ids, force |-> force]
        /\ IF SeekRaises(results_dirs)
           THEN /\ ret' = [raised |-> "AssertionError", wrote |-> FALSE]
                /\ UNCHANGED results_file
           ELSE IF Recompute(results_file, force)
           THEN \E got \in {compute_mock_results(order, disk_expected, levels,
                               filter.min_count, filter.taxa_to_keep, new_param_ids)} :
                    IF got.raised # None
                    THEN /\ ret' = [raised |-> got.raised, wrote |-> FALSE]
                         /\ UNCHANGED results_file
                    ELSE /\ ret' = [raised |-> None, wrote |-> TRUE,
                                    value |-> got.table]
                         /\ results_file' = [exists |-> TRUE, content |-> got.table]
           ELSE /\ ret' = [raised |-> None, wrote |-> FALSE,
                           value |-> ReadCsv(results_file.content)]
                /\ UNCHANGED results_file
        /\ UNCHANGED <<metric_vars, on_empty_filter, disk_results, disk_expected, merged_files,
                       mock_results>>

NextEvaluate == Evaluate(ResultsDirsArgs, LevelRanges, {DefaultFilter}, {NoSchema})

SpecEvaluate == InitEvaluate /\ [][NextEvaluate]_vars

-----------------------------------------------------------------------------
(* The merge utility: add_sample_metadata_to_table,                        *)
(* merge_expected_and_observed_tables                                      *)

expected == <<"e", "x", "p", "e", "c", "t", "e", "d">>

\* '_'.join([method, params, s_id])
NewId(method, params, s_id) == Join(<<method, params, s_id>>, "_")

\* The table of a file with its samples renamed, or the error raised by
\* mount_observations.  present holds the cells with a positive value.
add_sample_metadata_to_table(file, min_count, taxonomy_level, taxa_to_keep, method, params) ==
    Only({IF got.raised # None THEN [raised |-> got.raised]
          ELSE [raised |-> None,
                table |->
                    [ids |-> got.table.ids,
                     samples |-> {NewId(method, params, s) :
                                     s \in Range(got.table.samples)},
                     present |-> {<<c[1], NewId(method, params, c[2])>> :
                                     c \in {d \in DOMAIN got.table.val :
                                               got.table.val[d] > 0}}]] :
          got \in {mount_observations(Files[file], min_count, taxonomy_level,
                                     taxa_to_keep, TRUE)}})

\* self.merge(other): the union of the samples and of the observations
TableMerge(self, other) ==
    [ids |-> self.ids \cup other.ids,
     samples |-> self.samples \cup other.samples,
     present |-> self.present \cup other.present]

\* exists(join(expected_results_dir, dataset_id, reference_id, biom_fp))
MergedExists(files, pair) == \E f \in files : f.pair = pair

\* Mutant of MergeNeeded: every result is merged and written.
MergeNeeded_always(files, pair, force) == TRUE

\* if not exists(biom_destination) or force is True
MergeNeeded(files, pair, force) == ~MergedExists(files, pair) \/ force

\* if not exists(join(expected_results_dir, ...)) or force is True
ExpectedNeeded(files, pair, force) == ~MergedExists(files, pair) \/ force

\* The first loop: expected_tables, one annotated table for every pair of
\* the lookup whose merged file is missing or forced, or the error raised.
ExpectedTables(expected_lookup, files, min_count, taxonomy_level, taxa_to_keep, force) ==
    Only({IF \E t \in loaded : t.got.raised # None
          THEN [raised |-> "ValueError", tables |-> {}]
          ELSE [raised |-> None,
                tables |-> {[pair |-> t.pair, table |-> t.got.table] : t \in loaded}] :
          loaded \in {{[pair |-> pair,
                        got |-> add_sample_metadata_to_table(
                                    expected_lookup[pair], min_count, taxonomy_level,
                                    taxa_to_keep, expected, expected)] :
                       pair \in {q \in DOMAIN expected_lookup :
                                    ExpectedNeeded(files, q, force)}}}})

\* The second loop, over result_tables: tables is expected_tables, files
\* the merged files on disk, written the destinations written so far.
RECURSIVE MergeLoop(_, _, _, _, _, _, _, _, _)
MergeLoop(results, expected_lookup, tables, files, written, min_count, taxonomy_level, taxa_to_keep, force) ==
    IF results = <<>> THEN [raised |-> None, files |-> files, written |-> written]
    ELSE Only({
        IF ~MergeNeeded(files, pair, force)
        THEN MergeLoop(Tail(results), expected_lookup, tables, files, written,
                       min_count, taxonomy_level, taxa_to_keep, force)
        ELSE IF pair \notin DOMAIN expected_lookup
        THEN [raised |-> "KeyError", files |-> files, written |-> written]
        ELSE Only({
            IF actual.raised # None
            THEN [raised |-> actual.raised, files |-> files, written |-> written]
            ELSE IF \A t \in tables : t.pair # pair
            THEN [raised |-> "KeyError", files |-> files, written |-> written]
            ELSE Only({
                MergeLoop(Tail(results), expected_lookup,
                          {t \in tables : t.pair # pair} \cup {merged},
                          {f \in files : f.pair # pair} \cup {merged},
                          written \cup {pair},
                          min_count, taxonomy_level, taxa_to_keep, force) :
                merged \in {[pair |-> pair,
                             table |-> TableMerge(
                                 (CHOOSE t \in tables : t.pair = pair).table,
                                 actual.table)]}}) :
            actual \in {add_sample_metadata_to_table(
                           Head(results).file, min_count, taxonomy_level,
                           taxa_to_keep, Head(results).method,
                           Head(results).params)}}) :
        pair \in {<<Head(results).dataset, Head(results).reference>>}})

\* (min_count, taxa_to_keep): the defaults, or a filter on the taxon 'D'
KeepD == [min_count |-> 1, taxa_to_keep |-> Taxa(<<<<"D">>>>)]
MergeFilters == {DefaultFilter, KeepD}

\* taxonomy_level
MergeLevels == {1}

\* Results and expected tables on disk, no merged table yet.
InitMerge ==
    /\ actual_table = EmptyTable
    /\ expected_table = EmptyTable
    /\ disk_results \in {R \in SUBSET ResultPool :
                            R # {} /\ Cardinality(R) <= MaxResults}
    /\ disk_expected \in ExpectedDisks
    /\ results_file = NoFile
    /\ merged_files = {}
    /\ mock_results = <<>>
    /\ call = NoCall
    /\ ret = NoRet
    /\ on_empty_filter \in EmptyFilterOutcomes

\* merge_expected_and_observed_tables: order is the order in which
\* seek_results lists the tables.
MergeAll ==
    \E results_dirs \in ResultsDirsArgs, filter \in MergeFilters,
       taxonomy_level \in MergeLevels, force \in BOOLEAN,
       order \in Orders(disk_results) :
        /\ call' = [op |-> "merge_expected_and_observed_tables",
                    results_dirs |-> results_dirs,
                    min_count |-> filter.min_count,
                    taxa_to_keep |-> filter.taxa_to_keep,
                    taxonomy_level |-> taxonomy_level, force |-> force]
        /\ \E first \in {ExpectedTables(disk_expected, merged_files, filter.min_count,
                                        taxonomy_level, filter.taxa_to_keep, force)} :
            IF first.raised # None
            THEN /\ ret' = [raised |-> first.raised, written |-> {}]
                 /\ UNCHANGED merged_files
            ELSE IF SeekRaises(results_dirs)
            THEN /\ ret' = [raised |-> "AssertionError", written |-> {}]
                 /\ UNCHANGED merged_files
            ELSE \E got \in {MergeLoop(order, disk_expected, first.tables,
                                       merged_files, {}, filter.min_count,
                                       taxonomy_level, filter.taxa_to_keep, force)} :
                    /\ ret' = [raised |-> got.raised, written |-> got.written]
                    /\ merged_files' = got.files
        /\ UNCHANGED <<metric_vars, on_empty_filter, disk_results, disk_expected, results_file,
                       mock_results>>

NextMerge == MergeAll

SpecMerge == InitMerge /\ [][NextMerge]_vars

-----------------------------------------------------------------------------
(* The ranking layer: get_sample_to_top_params, parameter_comparisons,     *)
(* method_by_dataset.  A results table is a sequence of rows; a row's     *)
(* index label is its position.                                           *)

RatLe(x, y) == x.n * y.d <= y.n * x.d
\* x - y, which may be negative
RatSub(x, y) ==
    LET n == x.n * y.d - y.n * x.d
        d == x.d * y.d
        g == GCD(IF n < 0 THEN -n ELSE n, d)
    IN  [n |-> n \div g, d |-> d \div g]
RatAbs(x) == [n |-> IF x.n < 0 THEN -x.n ELSE x.n, d |-> x.d]

RECURSIVE RatSum(_)
RatSum(xs) == IF xs = <<>> THEN Rat(0, 1) ELSE RatAdd(Head(xs), RatSum(Tail(xs)))

\* Series.max(): the largest of a non-empty sequence of values
SeriesMax(xs) == CHOOSE x \in Range(xs) : \A y \in Range(xs) : RatLe(y, x)

\* Series.mad(): the mean absolute deviation about the mean
SeriesMad(xs) ==
    Only({RatDiv(RatSum([i \in DOMAIN xs |-> RatAbs(RatSub(xs[i], mean))]),
                 Rat(Len(xs), 1)) :
          mean \in {RatDiv(RatSum(xs), Rat(Len(xs), 1))}})

\* Mutant of AtTop: only values above max - mad count.
AtTop_strict(x, max_metric_value, mad_metric_value) == ~RatLe(x, RatSub(max_metric_value, mad_metric_value))

\* method_results[metric] >= (max_metric_value - mad_metric_value)
AtTop(x, max_metric_value, mad_metric_value) == RatLe(RatSub(max_metric_value, mad_metric_value), x)

\* The rows of the tables given to the ranking layer
Datasets == {"mock-1", "mock-2"}
RankMethods == {rdp, uclust}
RankParams == {Params_uclust, Params_rdp, Params_q2}
MetricValues == {Rat(9, 10), Rat(17, 20), Rat(1, 2)}
TopValues == {Rat(9, 10), Rat(17, 20)}
Row(dataset, method, params, f) ==
    [Dataset |-> dataset, SampleID |-> S1, Method |-> method, Parameters |-> params,
     Precision |-> Rat(1, 2), F_measure |-> f]
\* uclust in mock-1 has rows of every parameter id and value; rdp in
\* mock-1 and uclust in mock-2 have rows of one parameter id.
RowPool ==
    {Row("mock-1", uclust, ps, f) : ps \in RankParams, f \in MetricValues}
    \cup {Row("mock-1", rdp, Params_rdp, f) : f \in TopValues}
    \cup {Row("mock-2", uclust, Params_rdp, Rat(9, 10))}
\* The tables of n rows
Frames(n) == [1..n -> RowPool]

\* The orders df.sort_values(by=metric, ascending=False) can leave the rows
\* idx in: descending, rows of equal value in any order.
SortedOrders(df, idx, metric) ==
    {o \in Orders(idx) :
        \A i, j \in DOMAIN o : i < j => RatLe(df[o[j]][metric], df[o[i]][metric])}

\* list(tp.Parameters) for one dataset, sample and method: method_results
\* holds the positions of the method's rows, in sorted order.
TopParameters(df, metric, method_results) ==
    IF method_results = <<>> THEN <<>>
    ELSE Only({Only({Only({[i \in DOMAIN tp |-> df[tp[i]].Parameters] \o <<>> :
                           tp \in {SelectSeq(method_results,
                                      LAMBDA k : AtTop(df[k][metric], stats.max,
                                                       stats.mad))}}) :
                     stats \in {[max |-> SeriesMax(xs), mad |-> SeriesMad(xs)]}}) :
               xs \in {[i \in DOMAIN method_results |->
                           df[method_results[i]][metric]] \o <<>>}})

\* The table returned: (dataset, sample) -> method -> list of parameter
\* ids; sorted_df is the order of the rows of df after the sort.
get_sample_to_top_params(df, metric, sorted_df) ==
    Table([key \in {<<df[i].Dataset, df[i].SampleID>> : i \in DOMAIN df} |->
        Table([method \in {df[i].Method : i \in DOMAIN df} |->
            TopParameters(df, metric,
                SelectSeq(sorted_df,
                          LAMBDA k : /\ df[k].Dataset = key[1]
                                     /\ df[k].SampleID = key[2]
                                     /\ df[k].Method = method))])])

\* One sorted order; the counts of parameter_comparisons do not depend on
\* the order of rows of equal value.
SomeSortedOrder(df, metric) == CHOOSE o \in SortedOrders(df, DOMAIN df, metric) : TRUE

\* current_result of one metric: how many times each parameter id occurs
\* in the lists of df2[method]
WinCounts(df2, method) ==
    Table([p \in UNION {Range(df2[key][method]) : key \in DOMAIN df2} |->
        LET occurrences(key) ==
                Cardinality({i \in DOMAIN df2[key][method] : df2[key][method][i] = p})
        IN  SumOver(DOMAIN df2, [key \in DOMAIN df2 |-> occurrences(key)])])

\* The table returned: parameter id -> metric -> count, missing counts
\* filled with 0; the order of its rows is left out.  df2[method] raises
\* KeyError when no row of df has the method.
parameter_comparisons(df, method, metrics) ==
    IF \A i \in DOMAIN df : df[i].Method # method
    THEN [raised |-> "KeyError"]
    ELSE Only({[raised |-> None,
                value |->
                    [p \in UNION {DOMAIN result[m] : m \in DOMAIN result} |->
                        [m \in DOMAIN result |->
                            IF p \in DOMAIN result[m] THEN result[m][p] ELSE 0]]] :
               result \in {[m \in Range(metrics) |->
                              Only({WinCounts(df2, method) :
                                    df2 \in {get_sample_to_top_params(
                                                df, m, SomeSortedOrder(df, m))}})]}})

\* _is_first: the positions of order whose method has not been seen before
IsFirst(df, order) ==
    {i \in DOMAIN order :
        \A j \in 1..(i - 1) : df[order[j]].Method # df[order[i]].Method}

\* Mutant of method_by_dataset: the last row of each method is kept.
method_by_dataset_last(df, dataset, display_fields, sorted_dataset_df) ==
    LET last == {i \in DOMAIN sorted_dataset_df :
                    \A j \in (i + 1)..Len(sorted_dataset_df) :
                        df[sorted_dataset_df[j]].Method # df[sorted_dataset_df[i]].Method}
    IN  [i \in 1..Cardinality(last) |->
            LET k == CHOOSE k \in last : Cardinality({j \in last : j < k}) = i - 1
            IN  [index |-> sorted_dataset_df[k],
                 fields |-> [f \in display_fields |-> df[sorted_dataset_df[k]][f]]]]

\* The rows returned, with their index labels: sorted_dataset_df is the
\* order of the dataset's rows after the sort.
method_by_dataset(df, dataset, display_fields, sorted_dataset_df) ==
    LET first == IsFirst(df, sorted_dataset_df)
    IN  [i \in 1..Cardinality(first) |->
            LET k == CHOOSE k \in first : Cardinality({j \in first : j < k}) = i - 1
            IN  [index |-> sorted_dataset_df[k],
                 fields |-> [f \in display_fields |-> df[sorted_dataset_df[k]][f]]]]

\* The positions of the rows of a dataset
DatasetRows(df, dataset) == {i \in DOMAIN df : df[i].Dataset = dataset}

Metrics == {"F_measure"}
MetricLists == {<<"Precision", "F_measure">>}
DisplayFields == {"Method", "Precision", "F_measure"}

InitRank ==
    /\ actual_table = EmptyTable
    /\ expected_table = EmptyTable
    /\ NoDisk
    /\ \E n \in 0..MaxRows : mock_results \in Frames(n)
    /\ call = NoCall
    /\ ret = NoRet
    /\ on_empty_filter = "returns"

CallTopParams ==
    /\ call = NoCall
    /\ \E metric \in Metrics :
        \E sorted_df \in SortedOrders(mock_results, DOMAIN mock_results, metric) :
            /\ call' = [op |-> "get_sample_to_top_params", metric |-> metric]
            /\ ret' = [raised |-> None,
                       value |-> get_sample_to_top_params(mock_results, metric,
                                                          sorted_df)]
    /\ UNCHANGED <<metric_vars, on_empty_filter, disk_vars, mock_results>>

CallParameterComparisons ==
    /\ call = NoCall
    /\ \E method \in RankMethods, metrics \in MetricLists :
        /\ call' = [op |-> "parameter_comparisons", method |-> method,
                    metrics |-> metrics]
        /\ ret' = parameter_comparisons(mock_results, method, metrics)
    /\ UNCHANGED <<metric_vars, on_empty_filter, disk_vars, mock_results>>

CallMethodByDataset ==
    /\ call = NoCall
    /\ \E dataset \in Datasets, sort_field \in Metrics :
        \E sorted_dataset_df \in
              SortedOrders(mock_results, DatasetRows(mock_results, dataset),
                           sort_field) :
            /\ call' = [op |-> "method_by_dataset", dataset |-> dataset,
                        sort_field |-> sort_field,
                        display_fields |-> DisplayFields]
            /\ ret' = [raised |-> None,
                       value |-> method_by_dataset(mock_results, dataset,
                                                   DisplayFields, sorted_dataset_df)]
    /\ UNCHANGED <<metric_vars, on_empty_filter, disk_vars, mock_results>>

NextRank == CallTopParams \/ CallParameterComparisons \/ CallMethodByDataset

SpecRank == InitRank /\ [][NextRank]_vars

-----------------------------------------------------------------------------
(* The ranking layer: method_by_dataset_iterations.  Dataset ids are       *)
(* sequences of characters here, because the function builds them.        *)

MaxIterRows == 2  \* rows of the results table given to method_by_dataset_iterations
MaxIters == 2     \* num_iters

DecimalDigits == <<"0", "1", "2", "3", "4", "5", "6", "7", "8", "9">>

\* '{0}-iter{1}'.format(dataset, iter_), iter_ < 10
IterId(dataset, iter_) ==
    dataset \o <<"-", "i", "t", "e", "r">> \o <<DecimalDigits[iter_ + 1]>>

\* dataset_ids
IterIds(dataset, num_iters) == {IterId(dataset, i) : i \in 0..(num_iters - 1)}

\* The rows (positions) left by the two selections: the dataset is one of
\* dataset_ids, the method is the first member of some pair and the
\* parameters the second member of some pair.
IterationRows(df, dataset, parameters, num_iters) ==
    {i \in DOMAIN df :
        /\ df[i].Dataset \in IterIds(dataset, num_iters)
        /\ df[i].Method \in {parameters[k][1] : k \in DOMAIN parameters}
        /\ df[i].Parameters \in {parameters[k][2] : k \in DOMAIN parameters}}

\* groupby('Method').mean(): for each method of the rows, the mean of each
\* numeric display field
GroupMeans(df, rows, display_fields) ==
    Table([m \in {df[i].Method : i \in rows} |->
        Table([f \in display_fields \ {"Method"} |->
            Only({RatDiv(RatSum([k \in 1..Len(g) |-> df[g[k]][f]]), Rat(Len(g), 1)) :
                  g \in {SelectSeq([k \in DOMAIN df |-> k],
                                   LAMBDA k : k \in rows /\ df[k].Method = m)}})])])

\* The table returned, one row for each method, in the order sorted_methods
\* that sort_values(by=sort_field, ascending=False) leaves them in.
method_by_dataset_iterations(df, dataset, parameters, display_fields, num_iters, sorted_methods) ==
    Only({[k \in DOMAIN sorted_methods |->
              [Method |-> sorted_methods[k], fields |-> means[sorted_methods[k]]]] \o <<>> :
          means \in {GroupMeans(df, IterationRows(df, dataset, parameters, num_iters),
                               display_fields)}})

\* The orders the descending sort can leave the methods in.
SortedMethods(df, rows, display_fields, sort_field) ==
    Only({{o \in Orders(DOMAIN means) :
              \A i, j \in DOMAIN o :
                  i < j => RatLe(means[o[j]][sort_field], means[o[i]][sort_field])} :
          means \in {GroupMeans(df, rows, display_fields)}})

IterDataset == <<"m">>
IterValues == {Rat(9, 10), Rat(1, 2)}
\* Rows of the iterations 0 .. MaxIters of the dataset, two methods, two
\* parameter ids
IterRowPool ==
    {Row(IterId(IterDataset, i), m, ps, f) :
        i \in 0..MaxIters, m \in RankMethods, ps \in {Params_rdp, Params_q2},
        f \in IterValues}
\* parameters: one pair, or two pairs that share neither member
ParameterLists ==
    {<<<<rdp, Params_rdp>>>>, <<<<rdp, Params_rdp>>, <<uclust, Params_q2>>>>}

InitIterations ==
    /\ actual_table = EmptyTable
    /\ expected_table = EmptyTable
    /\ NoDisk
    /\ \E n \in 0..MaxIterRows : mock_results \in [1..n -> IterRowPool]
    /\ call = NoCall
    /\ ret = NoRet
    /\ on_empty_filter = "returns"

CallMethodByDatasetIterations ==
    /\ call = NoCall
    /\ \E parameters \in ParameterLists, num_iters \in 1..MaxIters,
          sort_field \in Metrics :
        \E sorted_methods \in
              SortedMethods(mock_results,
                            IterationRows(mock_results, IterDataset, parameters,
                                          num_iters),
                            DisplayFields, sort_field) :
            /\ call' = [op |-> "method_by_dataset_iterations",
                        dataset |-> IterDataset, parameters |-> parameters,
                        sort_field |-> sort_field,
                        display_fields |-> DisplayFields, num_iters |-> num_iters]
            /\ ret' = [raised |-> None,
                       value |-> method_by_dataset_iterations(
                                     mock_results, IterDataset, parameters,
                                     DisplayFields, num_iters, sorted_methods)]
    /\ UNCHANGED <<metric_vars, on_empty_filter, disk_vars, mock_results>>

NextIterations == CallMethodByDatasetIterations

SpecIterations == InitIterations /\ [][NextIterations]_vars

-----------------------------------------------------------------------------
(* evaluate_results called with the options a caller can set: a filter    *)
(* and a schema of parameter names                                        *)

\* new_param_ids: names for a method param_ids lacks, and other names for
\* a method it has
CallerSchema == (q2 :> <<"confidence">>) @@ (rdp :> <<"threshold">>)

SchemaOptions == {NoSchema, CallerSchema}

\* (min_count, taxa_to_keep): the defaults, or observations of 'D' only
FilterOptions == {DefaultFilter, KeepD}

NextEvaluateOptions ==
    Evaluate({<<"precomputed">>}, {<<1>>}, FilterOptions, SchemaOptions)

SpecEvaluateOptions == InitEvaluate /\ [][NextEvaluateOptions]_vars

-----------------------------------------------------------------------------
(* add_sample_metadata_to_table called on its own, with labels that hold  *)
(* the separator '_'                                                      *)

\* method and params arguments
MethodLabels == {<<"a">>, <<"a", "_", "b">>, expected}
ParamsLabels == {<<"c">>, <<"b", "_", "c">>, expected}

\* taxonomy_level
AnnotateLevels == {0, 1}

InitAnnotate ==
    /\ actual_table = EmptyTable
    /\ expected_table = EmptyTable
    /\ NoDisk
    /\ mock_results = <<>>
    /\ call = NoCall
    /\ ret = NoRet
    /\ on_empty_filter \in EmptyFilterOutcomes

CallAddSampleMetadata ==
    /\ \E file \in DOMAIN Files, filter \in MergeFilters,
          taxonomy_level \in AnnotateLevels, method \in MethodLabels,
          params \in ParamsLabels :
        /\ call' = [op |-> "add_sample_metadata_to_table", file |-> file,
                    min_count |-> filter.min_count,
                    taxa_to_keep |-> filter.taxa_to_keep,
                    taxonomy_level |-> taxonomy_level,
                    method |-> method, params |-> params]
        /\ \E got \in {add_sample_metadata_to_table(file, filter.min_count,
                           taxonomy_level, filter.taxa_to_keep, method, params)} :
            ret' = IF got.raised # None THEN [raised |-> got.raised]
                   ELSE [raised |-> None, value |-> got.table]
    /\ UNCHANGED <<metric_vars, on_empty_filter, disk_vars, mock_results>>

NextAnnotate == CallAddSampleMetadata

SpecAnnotate == InitAnnotate /\ [][NextAnnotate]_vars

-----------------------------------------------------------------------------
(* The table loader called on its own: filter_table, mount_observations   *)

\* taxa_to_keep: none, one entry, two entries
TaxaOptions ==
    {NoTaxa, Taxa(<<<<"D">>>>), Taxa(<<<<"A">>>>), Taxa(<<<<"A">>, <<"D">>>>)}

\* min_count
CountOptions == 0..2

\* taxonomy_level
LevelOptions == 0..2

InitLoad ==
    /\ actual_table = EmptyTable
    /\ expected_table = EmptyTable
    /\ NoDisk
    /\ mock_results = <<>>
    /\ call = NoCall
    /\ ret = NoRet
    /\ on_empty_filter \in EmptyFilterOutcomes

\* filter_table on the table of a file: the observations kept, or the
\* TableException of a filter that keeps nothing.
CallFilterTable ==
    /\ call = NoCall
    /\ \E file \in DOMAIN Files, min_count \in CountOptions,
          taxonomy_level \in LevelOptions, taxa_to_keep \in TaxaOptions :
        /\ call' = [op |-> "filter_table", file |-> file, min_count |-> min_count,
                    taxonomy_level |-> taxonomy_level,
                    taxa_to_keep |-> taxa_to_keep]
        /\ \E kept \in {filter_table(Files[file], min_count, taxonomy_level,
                                     taxa_to_keep)} :
            ret' = IF kept = {} /\ on_empty_filter = "raises"
                   THEN [raised |-> "TableException"]
                   ELSE [raised |-> None, value |-> kept]
    /\ UNCHANGED <<metric_vars, on_empty_filter, disk_vars, mock_results>>

CallMountObservations ==
    /\ call = NoCall
    /\ \E file \in DOMAIN Files, min_count \in CountOptions,
          taxonomy_level \in LevelOptions, taxa_to_keep \in TaxaOptions,
          filter_obs \in BOOLEAN :
        /\ call' = [op |-> "mount_observations", file |-> file,
                    min_count |-> min_count, taxonomy_level |-> taxonomy_level,
                    taxa_to_keep |-> taxa_to_keep, filter_obs |-> filter_obs]
        /\ \E got \in {mount_observations(Files[file], min_count, taxonomy_level,
                                          taxa_to_keep, filter_obs)} :
            ret' = IF got.raised # None THEN [raised |-> got.raised]
                   ELSE [raised |-> None, value |-> got.table]
    /\ UNCHANGED <<metric_vars, on_empty_filter, disk_vars, mock_results>>

NextLoad == CallFilterTable \/ CallMountObservations

SpecLoad == InitLoad /\ [][NextLoad]_vars

-----------------------------------------------------------------------------
(* Claims about the metric engine *)

\* An id without its whitespace characters, one character at a time.
RECURSIVE Squeeze(_)
Squeeze(id) ==
    IF id = <<>> THEN <<>>
    ELSE IF Head(id) \in WhiteSpace THEN Squeeze(Tail(id))
    ELSE <<Head(id)>> \o Squeeze(Tail(id))

\* The ids of a table with a positive count in the sample a call names.
Positive(table, sample_id) ==
    {o \in table.ids :
        table.val[<<o, IF sample_id = None THEN table.samples[1] ELSE sample_id>>] > 0}

PrfReturned == call.op = "compute_prf" /\ ret.raised = None
PrfA == {Squeeze(o) : o \in Positive(actual_table, call.actual_sample_id)}
PrfE == {Squeeze(o) : o \in Positive(expected_table, call.expected_sample_id)}

\* C1: compute_prf returns precision tp/(tp+fp), recall tp/(tp+fn) and
\* f-measure 2pr/(p+r) over the whitespace-stripped sets A and E of ids with
\* a positive count when tp > 0, and (0, 0, 0) when tp = 0; so it returns
\* zeros when A and E are disjoint and ones when A = E is not empty.
C1_ComputePrf ==
    PrfReturned =>
        LET tp == Cardinality(PrfA \cap PrfE)
            fp == Cardinality(PrfA \ PrfE)
            fn == Cardinality(PrfE \ PrfA)
            p == ret.value.p
            r == ret.value.r
            f == ret.value.f
        IN  /\ p.d > 0 /\ r.d > 0 /\ f.d > 0
            /\ tp > 0 =>
                /\ p.n * (tp + fp) = tp * p.d
                /\ r.n * (tp + fn) = tp * r.d
                /\ p.n * r.d + r.n * p.d > 0
                /\ f.n * (p.n * r.d + r.n * p.d) = 2 * p.n * r.n * f.d
            /\ tp = 0 => p.n = 0 /\ r.n = 0 /\ f.n = 0
            /\ PrfA \cap PrfE = {} => p.n = 0 /\ r.n = 0 /\ f.n = 0
            /\ (PrfA = PrfE /\ PrfA # {}) => p.n = p.d /\ r.n = r.d /\ f.n = f.d

\* A call with true positives, false positives and false negatives, where
\* an observed id matches an expected one only once its whitespace is removed.
C1_Witness ==
    /\ PrfReturned
    /\ PrfA \cap PrfE # {} /\ PrfA \ PrfE # {} /\ PrfE \ PrfA # {}
    /\ \E o \in Positive(actual_table, call.actual_sample_id) :
          /\ Squeeze(o) # o
          /\ Squeeze(o) \in Positive(expected_table, call.expected_sample_id)

VectorsReturned == call.op = "get_actual_and_expected_vectors" /\ ret.raised = None
VecA == Positive(actual_table, call.actual_sample_id)
VecE == Positive(expected_table, call.expected_sample_id)

\* C3: get_actual_and_expected_vectors returns two vectors of length
\* |A \cup E|, A and E the unstripped sets of ids with a positive count;
\* position i of both vectors holds the value of the same id, and an id in
\* exactly one of A and E has value 0 in the other table's vector.
C3_AlignedVectors ==
    VectorsReturned =>
        LET ids == ret.value.ids
            av == ret.value.actual_vector
            ev == ret.value.expected_vector
            asid == IF call.actual_sample_id = None THEN actual_table.samples[1]
                    ELSE call.actual_sample_id
            esid == IF call.expected_sample_id = None THEN expected_table.samples[1]
                    ELSE call.expected_sample_id
        IN  /\ Len(av) = Len(ev)
            /\ Len(av) = Cardinality(VecA \cup VecE)
            /\ Len(ids) = Len(av)
            /\ Range(ids) = VecA \cup VecE
            /\ \A i \in 1..Len(av) :
                /\ ids[i] \in VecA => av[i] = actual_table.val[<<ids[i], asid>>]
                /\ ids[i] \in VecE => ev[i] = expected_table.val[<<ids[i], esid>>]
                /\ ids[i] \in VecA \ VecE => ev[i] = 0
                /\ ids[i] \in VecE \ VecA => av[i] = 0

\* A call where each table observes an id the other does not, one of them
\* a row of the other table with count 0.
C3_Witness ==
    /\ VectorsReturned
    /\ VecA \ VecE # {}
    /\ \E o \in VecE \ VecA : o \in actual_table.ids

ObservedReturned == call.op = "get_observed_observation_ids" /\ ret.raised = None

\* C4: get_observed_observation_ids returns exactly the ids with a strictly
\* positive count in the sample (the table's first sample by default); with
\* ws_strip every whitespace character is removed from an id first, so two
\* positive ids that differ only in whitespace give one element.
C4_ObservedIds ==
    ObservedReturned =>
        LET pos == Positive(actual_table, call.sample_id)
        IN  /\ ~call.ws_strip => ret.value = pos
            /\ call.ws_strip =>
                /\ ret.value = {Squeeze(o) : o \in pos}
                /\ \A e \in ret.value : \A i \in DOMAIN e : e[i] \notin WhiteSpace
                /\ \A o1, o2 \in pos :
                      Squeeze(o1) = Squeeze(o2) =>
                          Cardinality({e \in ret.value :
                              e = Squeeze(o1) \/ e = Squeeze(o2)}) = 1

\* A call with the default sample on a table whose first sample is S2:
\* "k__1" and "k \t__1" are both positive in S2 and become one element, while
\* one of them has count 0 in S1.
C4_Witness ==
    /\ ObservedReturned
    /\ call.ws_strip /\ call.sample_id = None
    /\ actual_table.samples = <<"S2", "S1">>
    /\ actual_table.ids = {ObsId(1, 0), ObsId(1, MaxWs)}
    /\ actual_table.val[<<ObsId(1, 0), "S2">>] > 0
    /\ actual_table.val[<<ObsId(1, MaxWs), "S2">>] > 0
    /\ actual_table.val[<<ObsId(1, MaxWs), "S1">>] = 0
    /\ Cardinality(ret.value) = 1


-----------------------------------------------------------------------------
(* Claims about the evaluation orchestrator *)

EvaluateComputed ==
    call.op = "evaluate_results" /\ ret.raised = None /\ ret.wrote

\* The records of the scenario: result mock-1/gg/uclust/0.8:0.97:3 (observed
\* 'A;B' = 3 and 'A;C' = 1 in S1, expected 'A;B'), level 1, sample S1.
ScenarioRecords ==
    IF EvaluateComputed
    THEN {ret.value[i].row : i \in
            {j \in DOMAIN ret.value :
                /\ ret.value[j].row.Dataset = "mock-1"
                /\ ret.value[j].row.Reference = "gg"
                /\ ret.value[j].row.Method = uclust
                /\ ret.value[j].row.Parameters = Params_uclust
                /\ ret.value[j].row.Level = 1
                /\ ret.value[j].row.SampleID = S1}}
    ELSE {}

\* C2: in the end-to-end scenario, evaluating at taxonomy_level=1 keeps the
\* first two ranks, so the observed table keeps the taxa 'A;B' and 'A;C',
\* the expected table keeps 'A;B', and the Evaluation Record for sample S1
\* has precision = 1/2, recall = 1 and F-measure = 2/3.
C2_EndToEnd ==
    \A row \in ScenarioRecords :
        /\ mount_observations(Files.observed_ab_ac, 0, 1, NoTaxa, TRUE).table.ids
              = {<<"A", ";", "B">>, <<"A", ";", "C">>}
        /\ mount_observations(Files.expected_ab, 0, 1, NoTaxa, FALSE).table.ids
              = {<<"A", ";", "B">>}
        /\ row.Precision = Rat(1, 2)
        /\ row.Recall = Rat(1, 1)
        /\ row.F_measure = Rat(2, 3)

C2_Witness ==
    /\ ScenarioRecords # {}
    /\ call.taxonomy_level_range = <<0, 1>>

\* C2 as stated: both tables collapse to the single taxon 'A' and the
\* record has precision = recall = F-measure = 1.
C2_AsStated ==
    \A row \in ScenarioRecords :
        /\ mount_observations(Files.observed_ab_ac, 0, 1, NoTaxa, TRUE).table.ids
              = {<<"A">>}
        /\ mount_observations(Files.expected_ab, 0, 1, NoTaxa, FALSE).table.ids
              = {<<"A">>}
        /\ row.Precision = Rat(1, 1)
        /\ row.Recall = Rat(1, 1)
        /\ row.F_measure = Rat(1, 1)

-----------------------------------------------------------------------------
(* Claims about the merge utility *)

MergeCalled(c) == c.op = "merge_expected_and_observed_tables"

\* The renamed sample ids of a table file
RenamedSamples(file, method, params) ==
    {method \o <<"_">> \o params \o <<"_">> \o s : s \in Range(Files[file].samples)}

\* The merged file of a result's (dataset, reference) exists and holds the
\* renamed samples of the result's table and of the expected table.
HoldsResult(files, res) ==
    \E f \in files :
        /\ f.pair = <<res.dataset, res.reference>>
        /\ RenamedSamples(res.file, res.method, res.params) \subseteq f.table.samples
        /\ RenamedSamples(disk_expected[f.pair], expected, expected)
              \subseteq f.table.samples

\* C6: after merge_expected_and_observed_tables completes, starting with no
\* merged file and force = False, the merged table of each (dataset,
\* reference) holds the renamed samples of the expected table and of every
\* observed result of that pair, however many results the pair has.
C6_AsStated ==
    [][(merged_files = {} /\ MergeCalled(call') /\ ~call'.force
          /\ ret'.raised = None) =>
          \A res \in disk_results : HoldsResult(merged_files', res)]_vars

\* C7: a call of merge_expected_and_observed_tables with force = False that
\* repeats, on the same directories and with the same filter arguments, a
\* call that has completed writes no merged file (every file is left as it
\* was) and raises no error.
C7_SecondCall ==
    [][(MergeCalled(call) /\ ret.raised = None
          /\ MergeCalled(call') /\ ~call'.force
          /\ call'.results_dirs = call.results_dirs
          /\ call'.min_count = call.min_count
          /\ call'.taxa_to_keep = call.taxa_to_keep
          /\ call'.taxonomy_level = call.taxonomy_level) =>
          /\ merged_files' = merged_files
          /\ ret'.written = {}
          /\ ret'.raised = None]_vars

\* A call with force = False has found every destination written and has
\* skipped results of two (dataset, reference) pairs.
C7_Witness ==
    /\ MergeCalled(call) /\ ~call.force
    /\ ret.raised = None /\ ret.written = {}
    /\ Cardinality(merged_files) = 2
    /\ \A res \in disk_results : MergedExists(merged_files, <<res.dataset, res.reference>>)


-----------------------------------------------------------------------------
(* Claims about the ranking layer *)

\* A metric value in twentieths
Twentieths(x) == x.n * (20 \div x.d)

\* The rows (positions) of a dataset, sample and method
GroupRows(df, key, method) ==
    {i \in DOMAIN df : /\ df[i].Dataset = key[1]
                       /\ df[i].SampleID = key[2]
                       /\ df[i].Method = method}

\* The rows of a group whose value is >= max - MAD over the group: with n
\* rows of sum s, n*n*MAD is the sum of |n*v - s|.
TopRows(df, key, method, metric) ==
    LET G == GroupRows(df, key, method)
        v == [i \in G |-> Twentieths(df[i][metric])]
        n == Cardinality(G)
        s == SumOver(G, v)
        dev == SumOver(G, [i \in G |-> IF n * v[i] >= s THEN n * v[i] - s
                                       ELSE s - n * v[i]])
    IN  {i \in G : \A j \in G : n * n * v[i] + dev >= n * n * v[j]}

FrameKeys(df) == {<<df[i].Dataset, df[i].SampleID>> : i \in DOMAIN df}
FrameMethods(df) == {df[i].Method : i \in DOMAIN df}

TopParamsReturned == call.op = "get_sample_to_top_params" /\ ret.raised = None

\* C8: get_sample_to_top_params returns, for every (dataset, sample) and
\* every method, the list of the parameter ids of that method's rows in
\* that dataset and sample whose metric value is >= max - MAD, max and MAD
\* taken over those same rows, one entry for each such row.
C8_TopParameters ==
    TopParamsReturned =>
        /\ DOMAIN ret.value = FrameKeys(mock_results)
        /\ \A key \in DOMAIN ret.value :
            /\ DOMAIN ret.value[key] = FrameMethods(mock_results)
            /\ \A method \in DOMAIN ret.value[key] :
                LET list == ret.value[key][method]
                    top == TopRows(mock_results, key, method, call.metric)
                IN  \A p \in Range(list) \cup {mock_results[i].Parameters : i \in top} :
                        Cardinality({i \in DOMAIN list : list[i] = p})
                            = Cardinality({i \in top : mock_results[i].Parameters = p})

\* Scores 0.9, 0.85 and 0.5 of three parameter ids of one method: the ids
\* scoring 0.9 and 0.85 are in the list, the id scoring 0.5 is not.
C8_Witness ==
    /\ TopParamsReturned
    /\ \E o \in Orders(DOMAIN mock_results) :
        /\ Len(o) = 3
        /\ GroupRows(mock_results, <<"mock-1", S1>>, uclust) = Range(o)
        /\ mock_results[o[1]].F_measure = Rat(9, 10)
        /\ mock_results[o[2]].F_measure = Rat(17, 20)
        /\ mock_results[o[3]].F_measure = Rat(1, 2)
        /\ Cardinality({mock_results[i].Parameters : i \in Range(o)}) = 3
        /\ Range(ret.value[<<"mock-1", S1>>][uclust])
              = {mock_results[o[1]].Parameters, mock_results[o[2]].Parameters}

MethodByDatasetReturned == call.op = "method_by_dataset" /\ ret.raised = None

\* C9: method_by_dataset returns one row for each method that has a row in
\* the chosen dataset and no other row; the row kept for a method is a row
\* of that dataset with the maximum sort_field value among the method's
\* rows in the dataset, whatever the order of the rows of the table.
C9_BestMethod ==
    MethodByDatasetReturned =>
        LET rows == DatasetRows(mock_results, call.dataset)
            kept == ret.value
        IN  /\ \A i \in DOMAIN kept :
                /\ kept[i].index \in rows
                /\ \A f \in call.display_fields :
                      kept[i].fields[f] = mock_results[kept[i].index][f]
                /\ \A j \in rows :
                      mock_results[j].Method = kept[i].fields.Method =>
                          Twentieths(mock_results[j][call.sort_field])
                              <= Twentieths(kept[i].fields[call.sort_field])
            /\ \A i, j \in DOMAIN kept :
                  i # j => kept[i].fields.Method # kept[j].fields.Method
            /\ {kept[i].fields.Method : i \in DOMAIN kept}
                  = {mock_results[j].Method : j \in rows}

\* Two rows of rdp in the dataset, the lower value first, and a row of
\* another dataset: the single row returned for rdp is the higher one.
C9_Witness ==
    /\ MethodByDatasetReturned
    /\ call.dataset = "mock-1"
    /\ Len(mock_results) = 3
    /\ mock_results[1] = Row("mock-1", rdp, Params_rdp, Rat(17, 20))
    /\ mock_results[2] = Row("mock-2", uclust, Params_rdp, Rat(9, 10))
    /\ mock_results[3] = Row("mock-1", rdp, Params_rdp, Rat(9, 10))
    /\ Len(ret.value) = 1
    /\ ret.value[1].index = 3

ComparisonsReturned == call.op = "parameter_comparisons" /\ ret.raised = None

\* C10: for each metric, the count parameter_comparisons reports for a
\* parameter id of the method is the number of distinct (dataset, sample)
\* pairs whose top set for the method holds that id, so no count exceeds
\* the number of (dataset, sample) pairs.
C10_AsStated ==
    ComparisonsReturned =>
        \A p \in DOMAIN ret.value : \A m \in Range(call.metrics) :
            /\ ret.value[p][m]
                  = Cardinality({key \in FrameKeys(mock_results) :
                        \E i \in TopRows(mock_results, key, call.method, m) :
                            mock_results[i].Parameters = p})
            /\ ret.value[p][m] <= Cardinality(FrameKeys(mock_results))

-----------------------------------------------------------------------------
(* Claims about method_by_dataset_iterations *)

IterationsReturned == call.op = "method_by_dataset_iterations" /\ ret.raised = None

\* The rows of one of the iterations of the call whose (method, parameter
\* id) is one of the pairs of the call
PairRows ==
    {i \in DOMAIN mock_results :
        /\ \E k \in 0..(call.num_iters - 1) :
              mock_results[i].Dataset
                  = call.dataset \o <<"-", "i", "t", "e", "r">> \o <<DecimalDigits[k + 1]>>
        /\ \E k \in DOMAIN call.parameters :
              /\ mock_results[i].Method = call.parameters[k][1]
              /\ mock_results[i].Parameters = call.parameters[k][2]}

\* C11: method_by_dataset_iterations averages only the rows whose dataset
\* is one of '<dataset>-iter0' .. '<dataset>-iter{num_iters-1}' and whose
\* (method, parameter id) is one of the pairs supplied: it returns one row
\* for each method of those rows, holding the mean over those rows, so a
\* row whose method is in one pair and whose parameter id is only in
\* another pair is left out.
C11_AsStated ==
    IterationsReturned =>
        /\ {ret.value[k].Method : k \in DOMAIN ret.value}
              = {mock_results[i].Method : i \in PairRows}
        /\ \A k \in DOMAIN ret.value :
              LET g == {i \in PairRows : mock_results[i].Method = ret.value[k].Method}
                  sum == SumOver(g, [i \in g |-> Twentieths(mock_results[i].F_measure)])
              IN  Twentieths(ret.value[k].fields.F_measure) * Cardinality(g) = sum

-----------------------------------------------------------------------------
(* Claims about the options of evaluate_results *)

EvaluateCalled == call.op = "evaluate_results"

\* The first names of the caller's schema for a method, as many as the
\* parameter id has tokens
CallerNames(method, params) ==
    {call.new_param_ids[method][k] :
        k \in 1..Min(Len(call.new_param_ids[method]), Len(Split(params, ":")))}

\* C12: the schema of parameter names given by the caller extends and
\* overrides the default one: a run does not fail on the lookup of a
\* method that the caller's schema names, and the decoded values of a
\* method of the caller's schema are stored under the caller's names.
C12_AsStated ==
    EvaluateCalled =>
        /\ ret.raised = "KeyError" =>
              \E res \in disk_results :
                  \/ <<res.dataset, res.reference>> \notin DOMAIN disk_expected
                  \/ res.method \notin DOMAIN param_ids \cup DOMAIN call.new_param_ids
        /\ ret.wrote =>
              \A i \in DOMAIN ret.value :
                  ret.value[i].row.Method \in DOMAIN call.new_param_ids =>
                      DOMAIN ret.value[i].params
                          = CallerNames(ret.value[i].row.Method,
                                        ret.value[i].row.Parameters)

\* One of the directories named is not on disk.
NamesMissingDir(dirs) == \E i \in DOMAIN dirs : dirs[i] \notin ExistingDirs

\* A result on disk has no expected table for its (dataset, reference).
LookupMiss ==
    \E res \in disk_results : <<res.dataset, res.reference>> \notin DOMAIN disk_expected

-----------------------------------------------------------------------------
(* Claims about add_sample_metadata_to_table *)

\* '<method>_<params>_<sample id>'
Labelled(method, params, s_id) == method \o <<"_">> \o params \o <<"_">> \o s_id

\* C14: add_sample_metadata_to_table renames every sample to
\* '<method>_<params>_<sample id>', and samples that differ in the method,
\* the params or the sample id get different names: the samples of one
\* table stay apart, and two tables renamed with different (method,
\* params) share no sample, also when a label holds '_'.
C14_AsStated ==
    [][(call'.op = "add_sample_metadata_to_table" /\ ret'.raised = None) =>
          /\ ret'.value.samples
                = {Labelled(call'.method, call'.params, s) :
                      s \in Range(Files[call'.file].samples)}
          /\ Cardinality(ret'.value.samples) = Len(Files[call'.file].samples)
          /\ (/\ call.op = "add_sample_metadata_to_table"
              /\ ret.raised = None
              /\ <<call.method, call.params>> # <<call'.method, call'.params>>)
                => ret.value.samples \cap ret'.value.samples = {}]_vars

-----------------------------------------------------------------------------
(* Claims about ties in method_by_dataset *)

\* C15: when rows of one method tie on sort_field, the row
\* method_by_dataset keeps for the method is the one that comes first in
\* the table it was given, on every run: no row of the method in the
\* dataset with the same value precedes the row kept.
C15_AsStated ==
    MethodByDatasetReturned =>
        \A i \in DOMAIN ret.value :
            \A j \in DatasetRows(mock_results, call.dataset) :
                (/\ mock_results[j].Method = ret.value[i].fields.Method
                 /\ mock_results[j][call.sort_field]
                       = ret.value[i].fields[call.sort_field])
                    => ret.value[i].index <= j

-----------------------------------------------------------------------------
(* Claims about the decoding of parameter ids *)

\* float(token) succeeds: digits with at most one '.'
ParsesAsNumber(token) ==
    /\ \A i \in DOMAIN token : token[i] \in DigitChars \cup {"."}
    /\ \E i \in DOMAIN token : token[i] \in DigitChars
    /\ Cardinality({i \in DOMAIN token : token[i] = "."}) <= 1

\* C16: in the table evaluate_results computes, the parameter id of a row
\* is split on ':' and the k-th token is stored, decoded as a whole, under
\* the k-th parameter name of the method: one value for each token, a
\* number when the token parses as one ('0.97' gives 0.97) and the raw
\* string otherwise.
C16_AsStated ==
    (EvaluateCalled /\ ret.wrote) =>
        \A i \in DOMAIN ret.value :
            LET names == param_ids[ret.value[i].row.Method]
                tokens == Split(ret.value[i].row.Parameters, ":")
                n == Min(Len(names), Len(tokens))
            IN  /\ DOMAIN ret.value[i].params = {names[k] : k \in 1..n}
                /\ \A k \in 1..n :
                      LET v == ret.value[i].params[names[k]]
                      IN  /\ Len(v) = 1
                          /\ <<v[1][2]>> = tokens[k]
                          /\ v[1][1] = "float" <=> ParsesAsNumber(tokens[k])

-----------------------------------------------------------------------------
(* Claims about the table loader *)

\* The table file of the call
CallFile == Files[call.file]

\* The ranks of an annotation: the items of a sequence, the ';'-separated
\* parts of a string.
Ranks(md) == IF md.form = "str" THEN Split(md.v, ";") ELSE md.v

\* The taxonomy string of an annotation: its ranks joined by ';'
TaxonomyString(md) == Join(Ranks(md), ";")

\* The count of an observation over the samples of the file of the call
TotalCount(o) ==
    SumOver(Range(CallFile.samples),
            [s \in Range(CallFile.samples) |-> CallFile.val[<<o, s>>]])

\* filter_table was called as mount_observations calls it when it filters
\* (min_count > 0 and an allowlist), and it returned.
FilterReturned ==
    /\ call.op = "filter_table"
    /\ ret.raised = None
    /\ call.min_count > 0
    /\ call.taxa_to_keep.given

\* The observation has the count and the depth the call asks for.
CountAndDepth(o) ==
    /\ TotalCount(o) >= call.min_count
    /\ Len(Ranks(CallFile.md[o])) >= call.taxonomy_level + 1

\* The id or the taxonomy string of the observation starts with an entry
\* of the allowlist of the call.
StartsWithEntry(o) ==
    \E k \in DOMAIN call.taxa_to_keep.list :
        \/ StartsWith(o, call.taxa_to_keep.list[k])
        \/ StartsWith(TaxonomyString(CallFile.md[o]), call.taxa_to_keep.list[k])

\* C17: of the observations that have the count and the depth asked for,
\* filter_table keeps those whose id or ';'-joined taxonomy starts with at
\* least one entry of the allowlist and removes the others, whatever the
\* length of the allowlist.
C17_AsStated ==
    FilterReturned =>
        \A o \in CallFile.obs :
            CountAndDepth(o) => (o \in ret.value <=> StartsWithEntry(o))

\* The observation has the count the call asks for and passes its
\* allowlist, as filter_table tests it.
CountAndAllowlist(o) ==
    /\ TotalCount(o) >= call.min_count
    /\ \/ StartsWith(o, Join(call.taxa_to_keep.list, ";"))
       \/ StartsWith(JoinedTaxonomy(CallFile.md[o]), Join(call.taxa_to_keep.list, ";"))

\* C18: of the observations that pass the count and allowlist conditions,
\* filter_table removes exactly those whose annotation has fewer than
\* taxonomy_level + 1 ranks, whether the annotation is a ';'-delimited
\* string or a sequence of ranks.
C18_AsStated ==
    FilterReturned =>
        \A o \in CallFile.obs :
            CountAndAllowlist(o) =>
                (o \notin ret.value
                    <=> Len(Ranks(CallFile.md[o])) < call.taxonomy_level + 1)

\* mount_observations was called with its filter active.
MountFiltering ==
    /\ call.op = "mount_observations"
    /\ call.filter_obs /\ call.min_count > 0 /\ call.taxa_to_keep.given

\* No observation of the file of the call passes the filter of the call.
NothingPasses ==
    filter_table(CallFile, call.min_count, call.taxonomy_level, call.taxa_to_keep) = {}

\* C19: when the filter of mount_observations is active and no observation
\* of the loaded table passes it, mount_observations raises the 'Table is
\* empty after filtering' ValueError, and so returns no table collapsed
\* from the unfiltered observations.
C19_AsStated == (MountFiltering /\ NothingPasses) => ret.raised = "ValueError"

-----------------------------------------------------------------------------
(* Claims about tables that are empty after filtering, in evaluate_results *)

\* The filter of the call leaves some observation of the table of the
\* result at every level of the call, or the call does not filter.
PassesFilter(res) ==
    (call.min_count > 0 /\ call.taxa_to_keep.given) =>
        \A k \in DOMAIN call.taxonomy_level_range :
            filter_table(Files[res.file], call.min_count,
                         call.taxonomy_level_range[k], call.taxa_to_keep) # {}

\* C20: a result table that is empty after filtering is skipped by
\* evaluate_results: the run does not end with the 'Table is empty after
\* filtering' ValueError, and the table a run computes and writes holds
\* the records of the results whose tables pass the filter.
C20_AsStated ==
    EvaluateCalled =>
        /\ ret.raised # "ValueError"
        /\ ret.wrote =>
              \A res \in disk_results :
                  PassesFilter(res) =>
                      \E i \in DOMAIN ret.value :
                          /\ ret.value[i].row.Dataset = res.dataset
                          /\ ret.value[i].row.Reference = res.reference
                          /\ ret.value[i].row.Method = res.method
                          /\ ret.value[i].row.Parameters = res.params

-----------------------------------------------------------------------------
(* Claims about the records of the results table *)

\* The records of the table returned for one result, level and sample id
RecordsOf(res, level, sample_id) ==
    {i \in DOMAIN ret.value :
        /\ ret.value[i].row.Dataset = res.dataset
        /\ ret.value[i].row.Reference = res.reference
        /\ ret.value[i].row.Method = res.method
        /\ ret.value[i].row.Parameters = res.params
        /\ ret.value[i].row.Level = level
        /\ ret.value[i].row.SampleID = sample_id}

MaxCount == 3  \* largest count of true positives, false positives, false negatives

\* A value of a record is a fraction between 0 and 1.
InUnitInterval(x) == x.d > 0 /\ 0 <= x.n /\ x.n <= x.d

\* The records evaluate_results returned and the records in the file at
\* results_fp
ProducedRecords ==
    (IF EvaluateCalled /\ ret.raised = None
     THEN {ret.value[i].row : i \in DOMAIN ret.value} ELSE {})
    \cup (IF results_file.exists
          THEN {results_file.content[i].row : i \in DOMAIN results_file.content}
          ELSE {})

\* C22: compute_prf never divides by zero, whatever the counts of true
\* positives, false positives and false negatives, so every record
\* evaluate_results returns or writes has its precision, recall and
\* F-measure between 0 and 1, and none holds the value -1 that stands for
\* ZeroDivisionError.
C22_NoSentinel ==
    /\ \A tp, fp, fn \in 0..MaxCount :
          /\ InUnitInterval(PrfOfCounts(tp, fp, fn).p)
          /\ InUnitInterval(PrfOfCounts(tp, fp, fn).r)
          /\ InUnitInterval(PrfOfCounts(tp, fp, fn).f)
    /\ \A row \in ProducedRecords :
          /\ InUnitInterval(row.Precision)
          /\ InUnitInterval(row.Recall)
          /\ InUnitInterval(row.F_measure)
          /\ Sentinel \notin {row.Precision, row.Recall, row.F_measure}

\* A computed run recorded a sample without true positives (all zeros) and
\* a sample with true positives.
C22_Witness ==
    /\ EvaluateCalled /\ ret.wrote
    /\ \E i, j \in DOMAIN ret.value :
          /\ ret.value[i].row.Precision = Rat(0, 1)
          /\ ret.value[i].row.F_measure = Rat(0, 1)
          /\ ret.value[j].row.F_measure.n > 0

=============================================================================
